---- MODULE Spec2Model ----
(***************************************************************************)
(* Entity-resolution engine of the ManaBox -> TCGplayer converter:         *)
(* candidate scoring (data_processing.find_best_match), the confirmation   *)
(* policy (card_processing.confirm_and_iterate_match), line processing     *)
(* (card_processing.process_card / _process_token_card), enrichment        *)
(* (data_processing.enhance_matches_with_scryfall), the remote adapter     *)
(* with its cache and rate limiter (scryfall_api) and the run driver       *)
(* (converter.convert_manabox_to_tcgplayer / process_confirmations).       *)
(*                                                                         *)
(* Strings are modelled structurally:                                      *)
(*  - a normalized name is a sequence of symbols, 0 being the space;       *)
(*  - a set name is [base, tokens]: the string base, followed by           *)
(*    " tokens" when tokens is TRUE;                                       *)
(*  - a condition string is [base, terms]: a base condition followed by    *)
(*    the finish terms it contains;                                        *)
(*  - a name as written (a product name, the name of an inventory line) is *)
(*    [face, dfc, prerelease, token]: its first face as normalize_key      *)
(*    leaves it, whether it encodes a second face ("//"), whether it       *)
(*    contains "prerelease", and whether it carries a parenthetical        *)
(*    "(Token)", which normalize_key strips.                               *)
(***************************************************************************)
EXTENDS Integers, Sequences, FiniteSets, TLC

VARIABLES
    card_database,          \* ref_data: ordered dict, a sequence of <<key5, row>>
    confirmed_matches,      \* state.confirmed_matches: key -> candidate key
    pending_confirmations,  \* state.pending_confirmations
    given_up_cards,         \* state.given_up_cards
    scryfall_only_cards,    \* state.scryfall_only_cards
    scryfall_cache,         \* scryfall_api.scryfall_cache: cache key -> result
    now,                    \* time.time(), in ticks of 0.1 s
    last_scryfall_request,  \* scryfall_api.last_scryfall_request
    current_rate_limit,     \* scryfall_api.current_rate_limit
    consecutive_429s,       \* scryfall_api.consecutive_429s
    last_429_time,          \* scryfall_api.last_429_time
    wire,                   \* what the adapter did on the wire in the last step
    cards,                  \* convert_manabox_to_tcgplayer: local list cards
    merged_cards,           \* convert_manabox_to_tcgplayer: merged_cards
    pc,                     \* position of convert_manabox_to_tcgplayer
    nlines,                 \* number of input rows read so far
    last,                   \* what the last call did (its arguments and result)
    arg,                    \* arguments of a function applied on its own
    res                     \* result of a function applied on its own

limiter == <<now, last_scryfall_request, current_rate_limit, consecutive_429s,
             last_429_time, wire>>

vars == <<card_database, confirmed_matches, pending_confirmations, given_up_cards,
          scryfall_only_cards, scryfall_cache, limiter, cards, merged_cards, pc, nlines,
          last, arg, res>>

runVars == <<card_database, confirmed_matches, pending_confirmations, given_up_cards,
             scryfall_only_cards, scryfall_cache, limiter, cards, merged_cards, pc, nlines,
             last>>

-----------------------------------------------------------------------------
(* Bounds of the model *)

MaxLines == 2
MaxPool == 2
MaxChoice == 2

-----------------------------------------------------------------------------
(* config.py *)

high_confidence_score == 270
medium_confidence_score == 260
scryfall_score == 350
token_score == 250
score_difference_threshold == 30

DEFAULT_TCGPLAYER_ID == "Not Found"
DEFAULT_SCRYFALL_ID == "Scryfall Verified"

FinishTerms == {"foil", "showcase", "etched", "borderless", "extended", "gilded"}

SPECIAL_PRINT_PENALTIES(term) == IF term = "foil" THEN 40 ELSE 30

RankedConditions ==
    {"near mint", "lightly played", "moderately played", "heavily played", "damaged"}

condition_rank(base) ==
    CASE base = "near mint" -> 0
      [] base = "lightly played" -> 1
      [] base = "moderately played" -> 2
      [] base = "heavily played" -> 3
      [] base = "damaged" -> 4

-----------------------------------------------------------------------------
(* Keys.  normalize_key returns (name, set, number, condition, suffix) with  *)
(* suffix always ""; callers slice the first four fields.                    *)

\* the number None of a key
NoNumber == "None"

Key5(name, set, number, cond) == <<name, set, number, cond, "">>
Key4(k) == SubSeq(k, 1, 4)

KName(k) == k[1]
KSet(k) == k[2]
KNumber(k) == k[3]
KCond(k) == k[4]

Cond(base, terms) == [base |-> base, terms |-> terms]
SetName(base, tokens) == [base |-> base, tokens |-> tokens]

-----------------------------------------------------------------------------
(* rapidfuzz.fuzz.ratio: 100 * (1 - indel distance / (len a + len b)),       *)
(* that is 200 * LCS(a, b) / (len a + len b).                                *)

Abs(a) == IF a >= 0 THEN a ELSE 0 - a

\* a sequence given as a function on 1..n, as a tuple
ToSeq(f) == <<>> \o f

\* s is a subsequence of b
RECURSIVE IsSubsequence(_, _)
IsSubsequence(s, b) ==
    IF s = <<>> THEN TRUE
    ELSE IF b = <<>> THEN FALSE
    ELSE IF Head(s) = Head(b) THEN IsSubsequence(Tail(s), Tail(b))
    ELSE IsSubsequence(s, Tail(b))

\* the symbols of a at the positions in S, in order
Pick(a, S) ==
    LET idx == SelectSeq([i \in 1..Len(a) |-> i], LAMBDA i : i \in S)
    IN  ToSeq([j \in 1..Len(idx) |-> a[idx[j]]])

\* length of the longest common subsequence
LCS(a, b) ==
    LET common == {S \in SUBSET (1..Len(a)) : IsSubsequence(Pick(a, S), b)}
    IN  CHOOSE n \in 0..Len(a) :
            /\ \E S \in common : Cardinality(S) = n
            /\ \A S \in common : Cardinality(S) <= n

Ratio(a, b) ==
    IF Len(a) + Len(b) = 0 THEN 100
    ELSE (200 * LCS(a, b)) \div (Len(a) + Len(b))

\* a in b, for strings
IsSubstring(a, b) ==
    \E i \in 0..(Len(b) - Len(a)) : SubSeq(b, i + 1, i + Len(a)) = a

\* str.split(): the words of a name, as a sequence
RECURSIVE SplitFrom(_, _, _)
SplitFrom(s, i, word) ==
    IF i > Len(s) THEN (IF word = <<>> THEN <<>> ELSE <<word>>)
    ELSE IF s[i] = 0
         THEN (IF word = <<>> THEN <<>> ELSE <<word>>) \o SplitFrom(s, i + 1, <<>>)
         ELSE SplitFrom(s, i + 1, Append(word, s[i]))

Split(s) == SplitFrom(s, 1, <<>>)

Range(s) == {s[i] : i \in 1..Len(s)}

-----------------------------------------------------------------------------
(* The ordered dict ref_data *)

DictHas(d, k) == \E i \in 1..Len(d) : d[i][1] = k
DictGet(d, k) == d[CHOOSE i \in 1..Len(d) : d[i][1] = k][2]

\* d[k] = v: an existing key keeps its place, a new key goes last
DictPut(d, k, v) ==
    IF DictHas(d, k)
    THEN ToSeq([i \in 1..Len(d) |-> IF d[i][1] = k THEN <<k, v>> ELSE d[i]])
    ELSE Append(d, <<k, v>>)

-----------------------------------------------------------------------------
(* data_processing.is_double_sided_candidate *)

is_double_sided_candidate(product_name) == product_name.dfc

-----------------------------------------------------------------------------
(* data_processing.find_best_match *)

HasNumber(k) == KNumber(k) # NoNumber

\* The names of the model.  They have 4 symbols, so that every ratio is a
\* whole number (25 per common symbol).
NameBolt == <<1, 2, 0, 3>>     \* two words
NameBoltX == <<1, 2, 0, 4>>    \* two words, one shared with NameBolt
NameOther == <<1, 5, 0, 6>>    \* two words, none shared with NameBolt
NameWord == <<1, 2, 3, 4>>     \* one word
NameWordX == <<1, 2, 4, 3>>    \* another single word with the same first letter

Names == {NameBolt, NameBoltX, NameOther, NameWord, NameWordX}

\* lines 79-89: candidates skipped before any scoring, by their names
NamePruned(query_name, candidate_name) ==
    \/ (query_name # <<>> /\ candidate_name # <<>> /\ query_name[1] # candidate_name[1])
    \/ LET query_words == Split(query_name)
           candidate_words == Split(candidate_name)
       IN  IF Len(query_words) = 1 /\ Len(candidate_words) = 1
           THEN query_words[1] # candidate_words[1]
           ELSE IF Len(query_words) > 1 /\ Len(candidate_words) > 1
                THEN Range(query_words) \cap Range(candidate_words) = {}
                ELSE FALSE

\* lines 91-93
NameScore(query_name, candidate_name) ==
    Ratio(query_name, candidate_name)
    + (IF IsSubstring(query_name, candidate_name) \/ IsSubstring(candidate_name, query_name)
       THEN 20 ELSE 0)

\* NamePruned and NameScore of every pair of names of the model, computed once
NameTable ==
    [p \in Names \X Names |->
        [pruned |-> NamePruned(p[1], p[2]), score |-> NameScore(p[1], p[2])]] @@ <<>>

Pruned(q, c) == NameTable[<<KName(q), KName(c)>>].pruned

\* lines 91-95
NameSetScore(q, c) ==
    NameTable[<<KName(q), KName(c)>>].score
    + (IF KSet(q) = KSet(c) THEN 50 ELSE 0)

\* line 98: both numbers present and equal
ExactNumber(q, c) == HasNumber(q) /\ HasNumber(c) /\ KNumber(q) = KNumber(c)

\* lines 96-102
NumberScore(q, c) ==
    IF ~HasNumber(q) \/ ~HasNumber(c) THEN 50
    ELSE IF KNumber(q) = KNumber(c) THEN 100
    ELSE 0 - 15

\* lines 104-106: cond.replace("foil", "").strip() in condition_rank
RankedWithoutFoil(cond) == cond.base \in RankedConditions /\ cond.terms \subseteq {"foil"}

\* lines 104-116
ConditionScore(q, c) ==
    IF RankedWithoutFoil(KCond(q)) /\ RankedWithoutFoil(KCond(c))
    THEN LET diff == Abs(condition_rank(KCond(q).base) - condition_rank(KCond(c).base))
         IN  IF diff = 0 THEN 50 ELSE IF diff = 1 THEN 0 - 10 ELSE 0 - 30
    ELSE IF KCond(q) # KCond(c) THEN 0 - 20 ELSE 0

\* lines 118-120 (a loaded row never has a pre-release set: normalize_key drops it)
PrereleaseRow(row) == row.pn.prerelease

RECURSIVE SumPenalties(_)
SumPenalties(terms) ==
    IF terms = {} THEN 0
    ELSE LET t == CHOOSE x \in terms : TRUE
         IN  SPECIAL_PRINT_PENALTIES(t) + SumPenalties(terms \ {t})

\* lines 122-126
PrintPenalty(q, c) ==
    SumPenalties({t \in FinishTerms : (t \in KCond(q).terms) # (t \in KCond(c).terms)})

\* the score with which a candidate enters exact_number_matches (line 100)
ExactTierScore(q, c) == NameSetScore(q, c) + NumberScore(q, c)

\* the score with which a candidate enters matches (line 128)
FullScore(q, c) ==
    NameSetScore(q, c) + NumberScore(q, c) + ConditionScore(q, c) - PrintPenalty(q, c)

\* line 100: exact_number_matches, in the order of the dict
ExactNumberMatches(q, d) ==
    LET kept == SelectSeq(d, LAMBDA e : ~Pruned(q, e[1]) /\ ExactNumber(q, e[1]))
    IN  ToSeq([i \in 1..Len(kept) |-> <<kept[i][1], ExactTierScore(q, kept[i][1])>>])

\* line 128: matches, in the order of the dict
AllMatches(q, d) ==
    LET kept == SelectSeq(d, LAMBDA e : ~Pruned(q, e[1]) /\ ~PrereleaseRow(e[2]))
    IN  ToSeq([i \in 1..Len(kept) |-> <<kept[i][1], FullScore(q, kept[i][1])>>])

\* list.sort(key=score, reverse=True): stable, descending.  The place of s[j]
\* is one more than the number of elements that come before it.
SortByScore(matches) ==
    LET s == matches
        Place(j) ==
            1 + Cardinality({k \in 1..Len(s) :
                                \/ s[k][2] > s[j][2]
                                \/ (s[k][2] = s[j][2] /\ k < j)})
    IN  ToSeq([i \in 1..Len(s) |-> s[CHOOSE j \in 1..Len(s) : Place(j) = i]])

\* find_best_match without the exact-number tier
find_best_match_untiered(normalized_key, d) ==
    SortByScore(AllMatches(normalized_key, d))

\* lines 130-137
find_best_match(normalized_key, d) ==
    LET exact_number_matches == ExactNumberMatches(normalized_key, d)
    IN  SortByScore(IF exact_number_matches # <<>>
                    THEN exact_number_matches
                    ELSE AllMatches(normalized_key, d))

-----------------------------------------------------------------------------
(* Values the model draws from *)

SetA == SetName("alpha", FALSE)
SetB == SetName("beta", FALSE)
SetATokens == SetName("alpha", TRUE)

NM == Cond("near mint", {})
NMFoil == Cond("near mint", {"foil"})
LP == Cond("lightly played", {})

ProductName(face, dfc, prerelease, token) ==
    [face |-> face, dfc |-> dfc, prerelease |-> prerelease, token |-> token]

\* a row of the reference catalog (file_handling.load_reference_data, records)
Row(id, pn, set, number, cond) ==
    [id |-> id, pn |-> pn, set |-> set, number |-> number, cond |-> cond]

\* load_reference_data, lines 88-96: the key of a row is normalize_key of its fields
RowKey(row) ==
    Key5(row.pn.face, row.set, IF row.number = "" THEN NoNumber ELSE row.number, row.cond)

NoRow == [none |-> "row"]
NoEntry == [none |-> "entry"]
NoCard == [none |-> "card"]
NoKey == <<>>

-----------------------------------------------------------------------------
(* card_processing.build_card_entry.  Rarity and price are left out.         *)

\* an override that is absent or falsy is <<>>, one that is given is <<value>>
Absent == <<>>
Given(v) == <<v>>

\* get_value, lines 70-77, for the ref_ fields
get_value(ref_row, field, override) ==
    IF override # Absent THEN override[1]
    ELSE IF ref_row # NoRow THEN ref_row[field]
    ELSE ""

\* lines 79-89; no caller passes tcgplayer_id
build_card_entry(manabox_row, condition, ref_row, product_name, set_name, number) ==
    [id |-> DEFAULT_TCGPLAYER_ID,
     set |-> get_value(ref_row, "set", set_name),
     pn |-> get_value(ref_row, "pn", product_name),
     number |-> get_value(ref_row, "number", number),
     cond |-> condition,
     qty |-> manabox_row.qty]

-----------------------------------------------------------------------------
(* card_processing.confirm_and_iterate_match *)

\* ref_data.get(best_match, {}).get("TCGplayer Id") == DEFAULT_SCRYFALL_ID
IsScryfallOnly(d, k) == DictHas(d, k) /\ DictGet(d, k).id = DEFAULT_SCRYFALL_ID

\* should_confirm with a strict comparison at the high-confidence threshold
should_confirm_strict(matches, d) ==
    LET best_score == matches[1][2]
        second_best_score == IF Len(matches) > 1 THEN matches[2][2] ELSE 0
        is_scryfall_only == IsScryfallOnly(d, matches[1][1])
    IN  \/ (is_scryfall_only /\ best_score >= scryfall_score)
        \/ best_score > high_confidence_score
        \/ (best_score >= medium_confidence_score
            /\ best_score - second_best_score >= score_difference_threshold)

\* lines 98-109
should_confirm(matches, d) ==
    LET best_score == matches[1][2]
        second_best_score == IF Len(matches) > 1 THEN matches[2][2] ELSE 0
        is_scryfall_only == IsScryfallOnly(d, matches[1][1])
    IN  \/ (is_scryfall_only /\ best_score >= scryfall_score)
        \/ best_score >= high_confidence_score
        \/ (best_score >= medium_confidence_score
            /\ best_score - second_best_score >= score_difference_threshold)

PendingItem(key, matches, pool) == [key |-> key, matches |-> matches, pool |-> pool]

MapPut(f, k, v) == [x \in DOMAIN f \cup {k} |-> IF x = k THEN v ELSE f[x]]

\* a deferral that puts the new item at the head of the queue
confirm_and_iterate_match_prepending(normalized_key, matches, d, confirmed, pending) ==
    IF should_confirm(matches, d)
    THEN [ret |-> matches[1][1],
          confirmed |-> MapPut(confirmed, normalized_key, matches[1][1]),
          pending |-> pending]
    ELSE [ret |-> NoKey,
          confirmed |-> confirmed,
          pending |-> <<PendingItem(normalized_key, matches, "ref_data")>> \o pending]

\* lines 96-116: the returned candidate and the new confirmed cache and queue
confirm_and_iterate_match(normalized_key, matches, d, confirmed, pending) ==
    IF should_confirm(matches, d)
    THEN [ret |-> matches[1][1],
          confirmed |-> MapPut(confirmed, normalized_key, matches[1][1]),
          pending |-> pending]
    ELSE [ret |-> NoKey,
          confirmed |-> confirmed,
          pending |-> Append(pending, PendingItem(normalized_key, matches, "ref_data"))]

-----------------------------------------------------------------------------
(* scryfall_api: the rate limiter, the process-lifetime cache and the two    *)
(* lookups of the resolution pass.  Time is counted in ticks of 0.1 s, the   *)
(* configured interval between requests; a request is answered in no time,   *)
(* so the clock moves only when the code sleeps or the caller idles.  The    *)
(* operators work on a record a of the module's globals (AdapterState) and   *)
(* return the record the call leaves.  A cache is a set of                   *)
(* <<cache key, result>>.                                                    *)

\* config.py line 76: rate_limit = 0.1 s, one tick
SCRYFALL_RATE_LIMIT == 1

Seconds(n) == 10 * n

Min(x, y) == IF x < y THEN x ELSE y
Max(x, y) == IF x > y THEN x ELSE y

\* what the module did on the wire: "limit" (adaptive_rate_limit was called, n
\* the interval it enforced), "request" (requests.get was called), "backoff"
\* (the sleep after a 429 response, n its length, kind its Retry-After header),
\* "error" (the except branch of a lookup reported an exception)
Event(ev, at, n, kind) == [ev |-> ev, at |-> at, n |-> n, kind |-> kind]

\* a response of the service; status 0 stands for requests.get raising
Response(status, retry, seconds, body) ==
    [status |-> status, retry |-> retry, seconds |-> seconds, body |-> body]

Ok == Response(200, "none", 0, "card")
Empty == Response(200, "none", 0, "empty")
Garbled == Response(200, "none", 0, "bad")
NotFound == Response(404, "none", 0, "bad")
Limited == Response(429, "none", 0, "bad")
LimitedRetry(seconds) == Response(429, "seconds", seconds, "bad")
LimitedBadRetry == Response(429, "bad", 0, "bad")
Dropped == Response(0, "none", 0, "bad")

\* lines 14-31
adaptive_rate_limit(a) ==
    LET elapsed == a.now - a.last_scryfall_request
        backing_off == a.consecutive_429s > 0 /\ a.now - a.last_429_time < Seconds(60)
        effective_limit == IF backing_off
                           THEN a.current_rate_limit * Min(2 ^ a.consecutive_429s, 8)
                           ELSE a.current_rate_limit
        woken == IF elapsed < effective_limit THEN a.now + (effective_limit - elapsed)
                 ELSE a.now
    IN  [a EXCEPT !.consecutive_429s = IF backing_off THEN @ ELSE 0,
                  !.now = woken,
                  !.last_scryfall_request = woken,
                  !.wire = Append(@, Event("limit", a.now, effective_limit, "rate"))]

\* a handler that waits 5 s after every 429 response
handle_rate_limit_response_flat(a, response) ==
    IF response.status = 429
    THEN [a EXCEPT !.consecutive_429s = @ + 1,
                   !.last_429_time = a.now,
                   !.now = @ + Seconds(5),
                   !.wire = Append(@, Event("backoff", a.now, Seconds(5), response.retry))]
    ELSE a

\* lines 34-55
handle_rate_limit_response(a, response) ==
    IF response.status = 429
    THEN LET wait_time == CASE response.retry = "seconds" -> response.seconds
                            [] response.retry = "bad" -> 5
                            [] OTHER -> Min(2 ^ (a.consecutive_429s + 1), 30)
         IN  [a EXCEPT !.consecutive_429s = @ + 1,
                       !.last_429_time = a.now,
                       !.now = @ + Seconds(wait_time),
                       !.wire = Append(@, Event("backoff", a.now, Seconds(wait_time),
                                                response.retry))]
    ELSE IF a.consecutive_429s = 0 /\ a.current_rate_limit > SCRYFALL_RATE_LIMIT
         THEN [a EXCEPT !.current_rate_limit =
                            Max((a.current_rate_limit * 9) \div 10, SCRYFALL_RATE_LIMIT)]
         ELSE a

\* requests.get or response.json() raised: the except branch (lines 133-136,
\* 208-211) reports it
Raises(response) == response.status = 0 \/ (response.status = 200 /\ response.body = "bad")
Caught(a, kind) == [a EXCEPT !.wire = Append(@, Event("error", a.now, 0, kind))]

\* requests.get (lines 103, 116, 197)
Send(a, kind) == [a EXCEPT !.wire = Append(@, Event("request", a.now, 0, kind))]

CacheHas(cache, k) == \E p \in cache : p[1] = k
CacheGet(cache, k) == (CHOOSE p \in cache : p[1] = k)[2]

\* scryfall_cache[cache_key] = card, and the value returned
Answer(card, a) == [card |-> card, a |-> a]
StoreId(a, k, card) == Answer(card, [a EXCEPT !.cache.id = @ \cup {<<k, card>>}])
StoreCard(a, k, card) == Answer(card, [a EXCEPT !.cache.card = @ \cup {<<k, card>>}])

\* the card the service returns: its name, the name of its set, its number
RemoteCard(name, set_code, number) ==
    [name |-> name, set |-> SetName(set_code, FALSE), number |-> number]

\* the card the service holds under an external id
CardOfId(sid) == RemoteCard(NameBolt, "alpha", "2")

\* lines 198-210, once the request was sent: a is the state handle_rate_limit_response
\* left (the state at the request when requests.get raised)
by_id_answered(scryfall_id, a, response) ==
    IF Raises(response)
    THEN StoreId(Caught(a, "id"), scryfall_id, NoCard)
    ELSE IF response.status = 200
         THEN StoreId(a, scryfall_id, CardOfId(scryfall_id))
         ELSE StoreId(a, scryfall_id, NoCard)

\* lines 193-198
by_id_requested(scryfall_id, a, response) ==
    by_id_answered(scryfall_id,
                   IF response.status = 0 THEN a ELSE handle_rate_limit_response(a, response),
                   response)

\* a lookup by id that never consults the cache
query_scryfall_by_id_uncached(scryfall_id, a, response) ==
    by_id_requested(scryfall_id, Send(adaptive_rate_limit(a), "id"), response)

\* scryfall_api.py lines 187-211
query_scryfall_by_id(scryfall_id, a, response) ==
    IF CacheHas(a.cache.id, scryfall_id)
    THEN Answer(CacheGet(a.cache.id, scryfall_id), a)
    ELSE by_id_requested(scryfall_id, Send(adaptive_rate_limit(a), "id"), response)

\* lines 117-136, once the search request was sent
search_answered(cache_key, card, a, response) ==
    IF Raises(response)
    THEN StoreCard(Caught(a, "search"), cache_key, NoCard)
    ELSE IF response.status = 200 /\ response.body = "card"
         THEN StoreCard(a, cache_key, card)
         ELSE StoreCard(a, cache_key, NoCard)

\* lines 111-117: the search request follows with no call of adaptive_rate_limit
search_requested(cache_key, card, a, response) ==
    search_answered(cache_key, card,
                    IF response.status = 0 THEN a ELSE handle_rate_limit_response(a, response),
                    response)

\* lines 104-109, once the direct request was sent
direct_answered(cache_key, card, a, direct, search) ==
    IF Raises(direct)
    THEN StoreCard(Caught(a, "direct"), cache_key, NoCard)
    ELSE IF direct.status = 200
         THEN StoreCard(a, cache_key, card)
         ELSE search_requested(cache_key, card, Send(a, "search"), search)

\* lines 100-104
direct_requested(cache_key, card, a, direct, search) ==
    direct_answered(cache_key, card,
                    IF direct.status = 0 THEN a ELSE handle_rate_limit_response(a, direct),
                    direct, search)

\* lines 98-117, after adaptive_rate_limit
card_requested(cache_key, card, collector_number, a, direct, search) ==
    IF collector_number # NoNumber /\ collector_number # ""
    THEN direct_requested(cache_key, card, Send(a, "direct"), direct, search)
    ELSE search_requested(cache_key, card, Send(a, "search"), search)

\* line 93
CardCacheKey(card_name, set_code, collector_number) ==
    <<card_name, set_code, IF collector_number = NoNumber THEN "" ELSE collector_number>>

\* scryfall_api.py lines 92-136
query_scryfall_card(card_name, set_code, collector_number, a, direct, search) ==
    IF CacheHas(a.cache.card, CardCacheKey(card_name, set_code, collector_number))
    THEN Answer(CacheGet(a.cache.card, CardCacheKey(card_name, set_code, collector_number)), a)
    ELSE card_requested(CardCacheKey(card_name, set_code, collector_number),
                        RemoteCard(card_name, set_code, collector_number),
                        collector_number, adaptive_rate_limit(a), direct, search)

-----------------------------------------------------------------------------
(* data_processing.enhance_matches_with_scryfall *)

\* lines 150-154: a one-word set name is its own code (no alias applies to the
\* sets of the model), a name of two words gives its initials
SetCodeOf(set_name) ==
    IF set_name.tokens
    THEN (IF set_name.base = "alpha" THEN "at" ELSE "bt")
    ELSE set_name.base

\* lines 178-195: the synthetic row
create_scryfall_fallback_entry(scryfall_card, condition) ==
    Row(DEFAULT_SCRYFALL_ID, ProductName(scryfall_card.name, FALSE, FALSE, FALSE),
        scryfall_card.set, scryfall_card.number, condition)

\* lines 158-175, on the card the lookups returned
enhance_matches_found(normalized_key, matches, d, found) ==
    IF found.card # NoCard /\ (matches = <<>> \/ matches[1][2] < 300)
    THEN [matches |-> <<(<<normalized_key, 350>>)>> \o matches,
          d |-> DictPut(d, normalized_key,
                        create_scryfall_fallback_entry(found.card, KCond(normalized_key))),
          a |-> found.a]
    ELSE [matches |-> matches, d |-> d, a |-> found.a]

\* lines 149-156, on the result of the lookup by id
enhance_matches_by_card(normalized_key, by_id, direct, search) ==
    IF by_id.card = NoCard
    THEN query_scryfall_card(KName(normalized_key), SetCodeOf(KSet(normalized_key)),
                             KNumber(normalized_key), by_id.a, direct, search)
    ELSE by_id

\* lines 140-175: the new list of matches, pool and adapter state
enhance_matches_with_scryfall(normalized_key, matches, d, manabox_row, a, by_id, direct, search) ==
    enhance_matches_found(normalized_key, matches, d,
        enhance_matches_by_card(normalized_key,
            IF manabox_row.sid # ""
            THEN query_scryfall_by_id(manabox_row.sid, a, by_id)
            ELSE Answer(NoCard, a),
            direct, search))

-----------------------------------------------------------------------------
(* card_processing.map_fields / is_token_card.  An inventory line is         *)
(* [name, set, number, cond, sid, qty]: name as written, set code           *)
(* [base, tcode] (tcode TRUE for a code of the form T<BASE>), the collector  *)
(* number after extract_card_number ("" when none), the condition that       *)
(* map_fields computes, the Scryfall ID ("" when none), the quantity.        *)

Line(name, set, number, cond, sid, qty) ==
    [name |-> name, set |-> set, number |-> number, cond |-> cond, sid |-> sid,
     qty |-> qty]

\* lines 129-135
is_token_card(card_name, set_name) == set_name.tcode \/ card_name.token

SetCode(base, tcode) == [base |-> base, tcode |-> tcode]

\* the set name a standard line hands to normalize_key, as normalized there
StandardSetName(set_name) == SetName(set_name.base, FALSE)

\* _process_token_card, lines 196-200
TokenSetName(set_name) == SetName(set_name.base, set_name.tcode)

\* data_processing.normalize_key, lines 46-71, on the fields of the model
normalize_key(card_name, set_name, condition, number) ==
    Key5(card_name.face, set_name, IF number = "" THEN NoNumber ELSE number, condition)

\* _process_token_card, lines 211-219
TokenRefData(d, token_set_name) ==
    LET token_set_base == SetName(token_set_name.base, FALSE)
        Contains(set_name, part) ==
            set_name.base = part.base /\ (part.tokens => set_name.tokens)
    IN  SelectSeq(d, LAMBDA e :
            /\ (e[2].set.tokens \/ e[2].pn.token)
            /\ (Contains(e[2].set, token_set_name) \/ Contains(e[2].set, token_set_base)))

Observed(op, line, key, hit, scored, enriched, matches, chosen, ret) ==
    [op |-> op, line |-> line, key |-> key, hit |-> hit, scored |-> scored,
     enriched |-> enriched, matches |-> matches, chosen |-> chosen, ret |-> ret]

-----------------------------------------------------------------------------
(* card_processing.process_card, standard branch (lines 150-190), with the   *)
(* caller's cards.append (converter.py lines 66-71): the state it leaves.    *)

\* the globals of scryfall_api at the start of a step, nothing on the wire yet
AdapterState ==
    [cache |-> scryfall_cache, now |-> now, last_scryfall_request |-> last_scryfall_request,
     current_rate_limit |-> current_rate_limit, consecutive_429s |-> consecutive_429s,
     last_429_time |-> last_429_time, wire |-> <<>>]

Outcome(d, a, confirmed, pending, given_up, scryfall_only, cs, position, obs) ==
    [card_database |-> d, adapter |-> a, confirmed_matches |-> confirmed,
     pending_confirmations |-> pending, given_up_cards |-> given_up,
     scryfall_only_cards |-> scryfall_only, cards |-> cs, pc |-> position, last |-> obs]

\* lines 158-161: the key is in the confirmed cache
process_card_cached(line, key) ==
    LET ref_row == DictGet(card_database, confirmed_matches[key])
        entry == build_card_entry(line, line.cond, ref_row, Given(ref_row.pn), Absent, Absent)
    IN  Outcome(card_database, AdapterState, confirmed_matches, pending_confirmations,
                given_up_cards, scryfall_only_cards, Append(cards, entry), pc,
                Observed("standard", line, key, TRUE, FALSE, FALSE, <<>>,
                         confirmed_matches[key], entry))

\* lines 175-190, after the decision dec on the candidates enh.matches of the
\* pool enh.d
\* a line that is never given up
should_never_give_up(key, dec) == FALSE

\* line 186: nothing was confirmed and the key is not in the pending queue
should_give_up(key, dec) ==
    dec.ret = NoKey /\ ~\E i \in 1..Len(dec.pending) : dec.pending[i].key = key

process_card_decided(line, key, weak, enh, dec) ==
    LET ref_row == IF dec.ret # NoKey THEN DictGet(enh.d, dec.ret) ELSE NoRow
        entry == IF dec.ret # NoKey
                 THEN build_card_entry(line, line.cond, ref_row, Given(ref_row.pn),
                                       Absent, Absent)
                 ELSE NoEntry
        external == dec.ret # NoKey /\ ref_row.id = DEFAULT_SCRYFALL_ID
        returned == IF dec.ret # NoKey /\ ~external THEN entry ELSE NoEntry
        give_up == should_give_up(key, dec)
        fallback == build_card_entry(line, line.cond, NoRow, Given(line.name),
                                     Given(line.set), Absent)
    IN  Outcome(enh.d, enh.a, dec.confirmed, dec.pending,
                IF give_up THEN Append(given_up_cards, fallback) ELSE given_up_cards,
                IF external THEN Append(scryfall_only_cards, entry)
                ELSE scryfall_only_cards,
                IF returned # NoEntry THEN Append(cards, returned) ELSE cards,
                pc,
                Observed("standard", line, key, FALSE, TRUE, weak, enh.matches, dec.ret,
                         returned))

\* lines 171-173, on the candidates enh.matches of the pool enh.d
process_card_enhanced(line, key, weak, enh) ==
    process_card_decided(line, key, weak, enh,
        IF enh.matches # <<>>
        THEN confirm_and_iterate_match(key, enh.matches, enh.d, confirmed_matches,
                                       pending_confirmations)
        ELSE [ret |-> NoKey, confirmed |-> confirmed_matches,
              pending |-> pending_confirmations])

\* process_card asking the adapter whatever the local candidates score
process_card_scored_always(line, normalized_result, matches, by_id, direct, search) ==
    process_card_enhanced(line, Key4(normalized_result), TRUE,
        enhance_matches_with_scryfall(normalized_result, matches, card_database,
                                      line, AdapterState, by_id, direct, search))

\* lines 167-168, on the candidates matches that find_best_match returned
process_card_scored(line, normalized_result, matches, by_id, direct, search) ==
    process_card_enhanced(line, Key4(normalized_result),
        matches = <<>> \/ matches[1][2] < medium_confidence_score,
        IF matches = <<>> \/ matches[1][2] < medium_confidence_score
        THEN enhance_matches_with_scryfall(normalized_result, matches, card_database,
                                           line, AdapterState, by_id, direct, search)
        ELSE [matches |-> matches, d |-> card_database, a |-> AdapterState])

\* lines 152-164, on the result of normalize_key
process_card_keyed(line, normalized_result, by_id, direct, search) ==
    IF Key4(normalized_result) \in DOMAIN confirmed_matches
    THEN process_card_cached(line, Key4(normalized_result))
    ELSE process_card_scored(line, normalized_result,
                             find_best_match(Key4(normalized_result), card_database),
                             by_id, direct, search)

process_card(line, by_id, direct, search) ==
    process_card_keyed(line,
        normalize_key(line.name, StandardSetName(line.set), line.cond, line.number),
        by_id, direct, search)

-----------------------------------------------------------------------------
(* card_processing._process_token_card (lines 193-278), with the caller's    *)
(* cards.append.  A failed lookup token_ref_data[...] raises KeyError, which *)
(* convert_manabox_to_tcgplayer re-raises: the run is aborted.               *)

\* the state a token line leaves: only these parts of the state can change
TokenOutcome(pending, given_up, cs, position, obs) ==
    Outcome(card_database, AdapterState, confirmed_matches, pending, given_up,
            scryfall_only_cards, cs, position, obs)

\* lines 233-237 and 270-276: the entry built from a row of token_ref_data
TokenEntry(line, token_set_name, ref_row) ==
    build_card_entry(line, line.cond, ref_row, Given(ref_row.pn), Given(token_set_name),
                     Given(ref_row.number))

\* lines 231-237: the key is in the confirmed cache
process_token_card_cached(line, token_ref_data, key) ==
    IF DictHas(token_ref_data, confirmed_matches[key])
    THEN LET entry == TokenEntry(line, TokenSetName(line.set),
                                 DictGet(token_ref_data, confirmed_matches[key]))
         IN  TokenOutcome(pending_confirmations, given_up_cards, Append(cards, entry), pc,
                          Observed("token", line, key, TRUE, FALSE, FALSE, <<>>,
                                   confirmed_matches[key], entry))
    ELSE TokenOutcome(pending_confirmations, given_up_cards, cards, "aborted",
                      Observed("token", line, key, TRUE, FALSE, FALSE, <<>>, NoKey, NoEntry))

\* _process_token_card resolving a two-faced line to the first double-sided
\* candidate instead of deferring it
process_token_card_resolving(line, token_ref_data, normalized_result, matches, ds_matches) ==
    LET chosen_match == IF line.name.dfc /\ ds_matches # <<>>
                        THEN ds_matches[1][1]
                        ELSE matches[1][1]
        entry == TokenEntry(line, TokenSetName(line.set),
                            DictGet(token_ref_data, chosen_match))
    IN  TokenOutcome(pending_confirmations, given_up_cards, Append(cards, entry), pc,
                     Observed("token", line, Key4(normalized_result), FALSE, TRUE, FALSE,
                              matches, chosen_match, entry))

\* lines 252-276, on the double-sided candidates ds_matches among matches
process_token_card_chosen(line, token_ref_data, normalized_result, matches, ds_matches) ==
    IF /\ line.name.dfc
       /\ ds_matches # <<>>
       /\ ds_matches[1][1] # matches[1][1]
    THEN TokenOutcome(Append(pending_confirmations,
                             PendingItem(normalized_result, ds_matches, "token_ref_data")),
                      given_up_cards, cards, pc,
                      Observed("token", line, Key4(normalized_result), FALSE, TRUE, FALSE,
                               matches, NoKey, NoEntry))
    ELSE LET entry == TokenEntry(line, TokenSetName(line.set),
                                 DictGet(token_ref_data, matches[1][1]))
         IN  TokenOutcome(pending_confirmations, given_up_cards, Append(cards, entry), pc,
                          Observed("token", line, Key4(normalized_result), FALSE, TRUE,
                                   FALSE, matches, matches[1][1], entry))

\* lines 242-264, on the candidates matches that find_best_match returned
process_token_card_scored(line, token_ref_data, normalized_result, matches) ==
    IF matches = <<>> \/ matches[1][2] < token_score
    THEN TokenOutcome(pending_confirmations,
             IF ~\E i \in 1..Len(pending_confirmations) :
                    pending_confirmations[i].key = Key4(normalized_result)
             THEN Append(given_up_cards,
                         build_card_entry(line, line.cond, NoRow, Given(line.name),
                                          Given(TokenSetName(line.set)),
                                          Given(line.number)))
             ELSE given_up_cards,
             cards, pc,
             Observed("token", line, Key4(normalized_result), FALSE, TRUE, FALSE, matches,
                      NoKey, NoEntry))
    ELSE process_token_card_chosen(line, token_ref_data, normalized_result, matches,
             SelectSeq(matches, LAMBDA m :
                 is_double_sided_candidate(DictGet(token_ref_data, m[1]).pn)))

\* lines 221-240, on token_ref_data and the result of normalize_key
process_token_card_keyed(line, token_ref_data, normalized_result) ==
    IF Key4(normalized_result) \in DOMAIN confirmed_matches
    THEN process_token_card_cached(line, token_ref_data, Key4(normalized_result))
    ELSE process_token_card_scored(line, token_ref_data, normalized_result,
             find_best_match(Key4(normalized_result), token_ref_data))

process_token_card(line) ==
    process_token_card_keyed(line,
        TokenRefData(card_database, TokenSetName(line.set)),
        normalize_key(line.name, TokenSetName(line.set), line.cond, line.number))

\* the globals of scryfall_api after a step that left the record a
Leaves(a) ==
    /\ scryfall_cache' = a.cache
    /\ now' = a.now
    /\ last_scryfall_request' = a.last_scryfall_request
    /\ current_rate_limit' = a.current_rate_limit
    /\ consecutive_429s' = a.consecutive_429s
    /\ last_429_time' = a.last_429_time
    /\ wire' = a.wire

\* the state after a call of map_fields
Becomes(r) ==
    /\ card_database' = r.card_database
    /\ Leaves(r.adapter)
    /\ confirmed_matches' = r.confirmed_matches
    /\ pending_confirmations' = r.pending_confirmations
    /\ given_up_cards' = r.given_up_cards
    /\ scryfall_only_cards' = r.scryfall_only_cards
    /\ cards' = r.cards
    /\ pc' = r.pc
    /\ last' = r.last

\* map_fields, lines 285-300, for a line that is not a token
\* the service answers each request the line makes: Offered(r, kind) are the
\* answers to choose from when the outcome r shows a request of that kind
Asked(events, kind) ==
    \E i \in 1..Len(events) : events[i].ev = "request" /\ events[i].kind = kind

RunResponses == {Ok, NotFound, Limited, Garbled, Dropped}

Offered(r, kind) == IF Asked(r.adapter.wire, kind) THEN RunResponses ELSE {NotFound}

ProcessStandard(line) ==
    /\ pc = "lines"
    /\ nlines < MaxLines
    /\ line.name.face # <<>>
    /\ ~is_token_card(line.name, line.set)
    /\ nlines' = nlines + 1
    /\ \E unanswered \in {process_card(line, NotFound, NotFound, NotFound)} :
         \E by_id \in Offered(unanswered, "id"), direct \in Offered(unanswered, "direct"),
            search \in Offered(unanswered, "search") :
             \E r \in {process_card(line, by_id, direct, search)} : Becomes(r)
    /\ UNCHANGED <<merged_cards, arg, res>>

\* map_fields, lines 285-300, for a token
ProcessToken(line) ==
    /\ pc = "lines"
    /\ nlines < MaxLines
    /\ line.name.face # <<>>
    /\ is_token_card(line.name, line.set)
    /\ nlines' = nlines + 1
    /\ \E r \in {process_token_card(line)} : Becomes(r)
    /\ UNCHANGED <<merged_cards, arg, res>>

\* process_card, lines 143-144: a line without a name is dropped
SkipLine(line) ==
    /\ pc = "lines"
    /\ nlines < MaxLines
    /\ line.name.face = <<>>
    /\ nlines' = nlines + 1
    /\ last' = Observed("skip", line, NoKey, FALSE, FALSE, FALSE, <<>>, NoKey, NoEntry)
    /\ UNCHANGED <<card_database, confirmed_matches, pending_confirmations, given_up_cards,
                   scryfall_only_cards, scryfall_cache, limiter, cards, merged_cards, pc,
                   arg, res>>

-----------------------------------------------------------------------------
(* data_processing.merge_entries, lines 198-206 *)

RECURSIVE SumQty(_, _)
SumQty(cs, I) ==
    IF I = {} THEN 0
    ELSE LET i == CHOOSE x \in I : TRUE IN cs[i].qty + SumQty(cs, I \ {i})

\* the dict merged keeps one card per (TCGplayer Id, Condition), at the place
\* of the first card with that pair, with the quantities of all of them added
merge_entries(cs) ==
    LET Same(a, b) == a.id = b.id /\ a.cond = b.cond
        firsts == SelectSeq([i \in 1..Len(cs) |-> i],
                            LAMBDA i : \A j \in 1..(i - 1) : ~Same(cs[j], cs[i]))
    IN  ToSeq([n \in 1..Len(firsts) |->
            [cs[firsts[n]] EXCEPT
                !.qty = SumQty(cs, {j \in 1..Len(cs) : Same(cs[j], cs[firsts[n]])})]])

-----------------------------------------------------------------------------
(* converter.convert_manabox_to_tcgplayer and process_confirmations *)

\* lines 66-74: the input is exhausted, the resolved lines are merged
EndOfInput ==
    /\ pc = "lines"
    /\ pc' = "merged"
    /\ merged_cards' = merge_entries(cards)
    /\ last' = Observed("merge", NoRow, NoKey, FALSE, FALSE, FALSE, <<>>, NoKey, NoEntry)
    /\ UNCHANGED <<card_database, confirmed_matches, pending_confirmations, given_up_cards,
                   scryfall_only_cards, scryfall_cache, limiter, cards, nlines, arg, res>>

\* process_confirmations, lines 18-19: nothing is pending
ConfirmNothing ==
    /\ pc = "merged"
    /\ pending_confirmations = <<>>
    /\ pc' = "confirmed"
    /\ last' = Observed("confirm_none", NoRow, NoKey, FALSE, FALSE, FALSE, <<>>, NoKey,
                        NoEntry)
    /\ UNCHANGED <<card_database, confirmed_matches, pending_confirmations, given_up_cards,
                   scryfall_only_cards, scryfall_cache, limiter, cards, merged_cards, nlines,
                   arg, res>>

\* what gui.confirm_match_gui_batch may return for a queue: an answer for each
\* of the first k items, 0 for "skip" or the rank of the chosen candidate
Answers(pending) ==
    UNION {{r \in [1..k -> 0..MaxChoice] :
                \A i \in 1..k : r[i] <= Len(pending[i].matches)} : k \in 0..Len(pending)}

\* process_confirmations, lines 28-41: the loop over the answers
\* each confirmed item writes confirmed_matches[key]; the last write to a key stays
ApplyAnswers(confirmed, pending, results) ==
    LET chosen == {i \in 1..Len(results) : results[i] # 0}
        Writes(k) == {i \in chosen : pending[i].key = k}
        LastWrite(k) == CHOOSE i \in Writes(k) : \A j \in Writes(k) : j <= i
    IN  [k \in DOMAIN confirmed \cup {pending[i].key : i \in chosen} |->
            IF Writes(k) # {}
            THEN pending[LastWrite(k)].matches[results[LastWrite(k)]][1]
            ELSE confirmed[k]]

\* process_confirmations, lines 23-43: the collaborator answers
ConfirmBatch(results) ==
    /\ pc = "merged"
    /\ pending_confirmations # <<>>
    /\ pc' = "confirmed"
    /\ confirmed_matches' = ApplyAnswers(confirmed_matches, pending_confirmations, results)
    /\ pending_confirmations' = <<>>
    /\ last' = Observed("confirm_batch", NoRow, NoKey, FALSE, FALSE, FALSE, <<>>, NoKey,
                        NoEntry)
    /\ UNCHANGED <<card_database, given_up_cards, scryfall_only_cards, scryfall_cache, limiter,
                   cards, merged_cards, nlines, arg, res>>

\* process_confirmations, lines 45-50: the collaborator raises
ConfirmFailed ==
    /\ pc = "merged"
    /\ pending_confirmations # <<>>
    /\ pc' = "confirmed"
    /\ pending_confirmations' = <<>>
    /\ last' = Observed("confirm_failed", NoRow, NoKey, FALSE, FALSE, FALSE, <<>>, NoKey,
                        NoEntry)
    /\ UNCHANGED <<card_database, confirmed_matches, given_up_cards, scryfall_only_cards,
                   scryfall_cache, limiter, cards, merged_cards, nlines, arg, res>>

\* convert_manabox_to_tcgplayer, lines 76-92: write_output_files of
\* merged_cards, scryfall_only_cards and given_up_cards
WriteOutput ==
    /\ pc = "confirmed"
    /\ pc' = "done"
    /\ last' = Observed("write", NoRow, NoKey, FALSE, FALSE, FALSE, <<>>, NoKey, NoEntry)
    /\ UNCHANGED <<card_database, confirmed_matches, pending_confirmations, given_up_cards,
                   scryfall_only_cards, scryfall_cache, limiter, cards, merged_cards, nlines,
                   arg, res>>

-----------------------------------------------------------------------------
(* The reference catalog and the inventory lines of the model *)

Plain(face) == ProductName(face, FALSE, FALSE, FALSE)

CatalogRows ==
    << Row("101", Plain(NameBolt), SetA, "1", LP),
       Row("102", Plain(NameBolt), SetA, "1", NM),
       Row("103", ProductName(NameBolt, FALSE, FALSE, TRUE), SetA, "3", NM),
       Row("201", Plain(NameBolt), SetATokens, "1", NM),
       Row("202", ProductName(NameBolt, TRUE, FALSE, FALSE), SetATokens, "1", LP) >>

\* load_reference_data, lines 85-102
RECURSIVE LoadRows(_, _)
LoadRows(d, rows) ==
    IF rows = <<>> THEN d
    ELSE LoadRows(DictPut(d, RowKey(Head(rows)), Head(rows)), Tail(rows))

load_reference_data(rows) == LoadRows(<<>>, rows)

Written(face, dfc, token) == ProductName(face, dfc, FALSE, token)

StandardLines ==
    { Line(Written(NameBolt, FALSE, FALSE), SetCode("alpha", FALSE), "1", NM, "", 1),
      Line(Written(NameBolt, FALSE, FALSE), SetCode("alpha", FALSE), "", NM, "", 1),
      Line(Written(NameBolt, FALSE, FALSE), SetCode("alpha", FALSE), "2", NM, "", 1),
      Line(Written(NameBolt, FALSE, FALSE), SetCode("alpha", FALSE), "2", NM, "sid1", 1),
      Line(Written(NameBolt, FALSE, FALSE), SetCode("alpha", FALSE), "2", LP, "", 1),
      Line(Written(NameBolt, FALSE, FALSE), SetCode("alpha", FALSE), "3", NM, "", 1),
      Line(Written(NameBoltX, FALSE, FALSE), SetCode("alpha", FALSE), "1", NM, "", 1),
      Line(Written(NameOther, FALSE, FALSE), SetCode("alpha", FALSE), "1", NM, "", 1) }

TokenLines ==
    { Line(Written(NameBolt, TRUE, FALSE), SetCode("alpha", TRUE), "", NM, "", 1),
      Line(Written(NameBolt, TRUE, FALSE), SetCode("alpha", TRUE), "", LP, "", 1),
      Line(Written(NameBolt, FALSE, FALSE), SetCode("alpha", TRUE), "1", NM, "", 1),
      Line(Written(NameBoltX, FALSE, FALSE), SetCode("alpha", TRUE), "", NM, "", 1),
      Line(Written(NameBolt, FALSE, TRUE), SetCode("alpha", FALSE), "1", NM, "", 1),
      Line(Written(NameBolt, FALSE, TRUE), SetCode("alpha", FALSE), "3", NM, "", 1) }

BlankLines ==
    { Line(Written(<<>>, FALSE, FALSE), SetCode("alpha", FALSE), "1", NM, "", 1) }

Lines == StandardLines \cup TokenLines \cup BlankLines

-----------------------------------------------------------------------------
(* The run *)

\* scryfall_api.py lines 7-11; the clock starts well after time 0
Epoch == Seconds(100)

InitAdapter ==
    /\ now = Epoch
    /\ last_scryfall_request = 0
    /\ current_rate_limit = SCRYFALL_RATE_LIMIT
    /\ consecutive_429s = 0
    /\ last_429_time = 0
    /\ wire = <<>>

NoArg == [none |-> "arg"]
NoRes == [none |-> "res"]

InitRun ==
    /\ card_database = load_reference_data(CatalogRows)
    /\ confirmed_matches = <<>>
    /\ pending_confirmations = <<>>
    /\ given_up_cards = <<>>
    /\ scryfall_only_cards = <<>>
    /\ scryfall_cache = [id |-> {}, card |-> {}]
    /\ InitAdapter
    /\ cards = <<>>
    /\ merged_cards = <<>>
    /\ pc = "lines"
    /\ nlines = 0
    /\ last = Observed("start", NoRow, NoKey, FALSE, FALSE, FALSE, <<>>, NoKey, NoEntry)

Init == InitRun /\ arg = NoArg /\ res = NoRes

Standard == \E line \in Lines : ProcessStandard(line)
Token == \E line \in Lines : ProcessToken(line)
Skip == \E line \in Lines : SkipLine(line)
Confirm == \E results \in Answers(pending_confirmations) : ConfirmBatch(results)

Next ==
    \/ Standard
    \/ Token
    \/ Skip
    \/ EndOfInput
    \/ ConfirmNothing
    \/ Confirm
    \/ ConfirmFailed
    \/ WriteOutput

Spec == Init /\ [][Next]_vars

-----------------------------------------------------------------------------
(* find_best_match and confirm_and_iterate_match applied on their own: the   *)
(* query and the pool are drawn from the sets below.                         *)

Showcase == Cond("near mint", {"showcase"})

ScorerRows ==
    { Row("101", Plain(NameBolt), SetA, "1", LP),
      Row("102", Plain(NameBolt), SetA, "1", NM),
      Row("104", Plain(NameBolt), SetA, "2", NM),
      Row("105", Plain(NameBolt), SetA, "1", NMFoil),
      Row("106", ProductName(NameBolt, FALSE, TRUE, FALSE), SetB, "1", NM),
      Row("107", Plain(NameBoltX), SetA, "1", NM),
      Row("108", Plain(NameOther), SetA, "1", NM),
      Row("109", Plain(NameBolt), SetB, "", NM),
      Row("110", Plain(NameBolt), SetA, "2", Showcase),
      Row("111", Plain(NameWord), SetB, "7", NM),
      Row("112", Plain(NameWordX), SetB, "7", NM) }

ScorerQueries ==
    { <<NameBolt, SetA, "1", NM>>,
      <<NameBolt, SetA, "1", NMFoil>>,
      <<NameBolt, SetA, "1", LP>>,
      <<NameBolt, SetA, "3", NM>>,
      <<NameBolt, SetA, "3", NMFoil>>,
      <<NameBolt, SetA, "3", Showcase>>,
      <<NameBolt, SetA, NoNumber, NM>>,
      <<NameBoltX, SetA, "1", NM>>,
      <<NameWord, SetB, "7", NM>> }

\* the catalogs loaded from at most MaxPool rows
ScorerPools ==
    {load_reference_data(rows) :
        rows \in UNION {[1..n -> ScorerRows] : n \in 0..MaxPool}}

\* the state in which a function is applied on its own to the pool d
InitCall(d) ==
    /\ card_database = d
    /\ confirmed_matches = <<>>
    /\ pending_confirmations = <<>>
    /\ given_up_cards = <<>>
    /\ scryfall_only_cards = <<>>
    /\ scryfall_cache = [id |-> {}, card |-> {}]
    /\ InitAdapter
    /\ cards = <<>>
    /\ merged_cards = <<>>
    /\ pc = "call"
    /\ nlines = 0
    /\ last = Observed("start", NoRow, NoKey, FALSE, FALSE, FALSE, <<>>, NoKey, NoEntry)
    /\ res = NoRes

InitScorer ==
    /\ \E d \in ScorerPools : InitCall(d)
    /\ arg \in {[op |-> "find_best_match", key |-> q] : q \in ScorerQueries}

\* card_processing.py line 164: matches = find_best_match(key, card_database, ...)
Score ==
    /\ arg.op = "find_best_match"
    /\ res = NoRes
    /\ res' = [op |-> "find_best_match", matches |-> find_best_match(arg.key, card_database)]
    /\ UNCHANGED <<arg, runVars>>

\* the call of confirm_and_iterate_match on a ranked list: its effect on the
\* confirmed cache and the queue, and its result
Confirmation(key, matches) ==
    \E r \in {confirm_and_iterate_match(key, matches, card_database, confirmed_matches,
                                         pending_confirmations)} :
        /\ confirmed_matches' = r.confirmed
        /\ pending_confirmations' = r.pending
        /\ res' = [op |-> "confirm_and_iterate_match", matches |-> matches, ret |-> r.ret]
        /\ UNCHANGED <<card_database, given_up_cards, scryfall_only_cards, scryfall_cache, limiter,
                       cards, merged_cards, pc, nlines, last, arg>>

\* card_processing.py lines 171-173, on the list the scorer returned
ConfirmScored ==
    /\ res # NoRes
    /\ res.op = "find_best_match"
    /\ res.matches # <<>>
    /\ Confirmation(arg.key, res.matches)

NextScorer == Score \/ ConfirmScored

SpecScorer == InitScorer /\ [][NextScorer]_vars

-----------------------------------------------------------------------------
(* confirm_and_iterate_match applied to ranked lists with scores around the  *)
(* thresholds: a list of at most MaxPool candidates, in descending order,    *)
(* whose candidates are loaded rows or a synthetic row of the pool.          *)

DecideScores == {0, 229, 230, 231, 239, 240, 259, 260, 269, 270, 299, 349, 350, 351}

LocalRows ==
    << Row("101", Plain(NameBolt), SetA, "1", LP),
       Row("102", Plain(NameBolt), SetA, "1", NM) >>

SyntheticRow ==
    create_scryfall_fallback_entry(RemoteCard(NameBolt, "alpha", "2"), NM)

DecidePool == load_reference_data(Append(LocalRows, SyntheticRow))

DecideKeys == {DecidePool[i][1] : i \in 1..Len(DecidePool)}

DecideLists ==
    {m \in UNION {[1..n -> DecideKeys \X DecideScores] : n \in 1..MaxPool} :
        /\ \A i \in 1..(Len(m) - 1) : m[i][2] >= m[i + 1][2]
        /\ \A i, j \in 1..Len(m) : i # j => m[i][1] # m[j][1]}

InitDecide ==
    /\ InitCall(DecidePool)
    /\ arg \in {[op |-> "confirm_and_iterate_match",
                  key |-> <<NameBolt, SetA, "2", NM>>,
                  matches |-> m] : m \in DecideLists}

Decide ==
    /\ arg.op = "confirm_and_iterate_match"
    /\ res = NoRes
    /\ Confirmation(arg.key, arg.matches)

SpecDecide == InitDecide /\ [][Decide]_vars

-----------------------------------------------------------------------------
(* The adapter driven on its own: lookups by external id and by name, set    *)
(* code and number, each arriving some time after the previous one returned  *)
(* and each request answered by the service as it pleases.  Here wire holds  *)
(* what the adapter did in the last lookup that reached the service.         *)

\* the clock of the adapter's callers stops at Epoch + Horizon
Horizon == 1300

Query(by, id, name, set_code, number) ==
    [by |-> by, id |-> id, name |-> name, set_code |-> set_code, number |-> number]

ById(id) == Query("id", id, <<>>, "", "")
ByCard(name, set_code, number) == Query("card", "", name, set_code, number)

Queries ==
    { ById("sid1"),
      ByCard(NameBolt, "alpha", "2"),
      ByCard(NameBolt, "alpha", NoNumber),
      ByCard(NameOther, "alpha", "1") }

Served(q, a) ==
    IF q.by = "id" THEN CacheHas(a.cache.id, q.id)
    ELSE CacheHas(a.cache.card, CardCacheKey(q.name, q.set_code, q.number))

AdapterResponses ==
    {Ok, Empty, Garbled, NotFound, Limited, LimitedRetry(3), LimitedBadRetry, Dropped}

Idles == {0, Seconds(60)}

Requests(events) == Len(SelectSeq(events, LAMBDA e : e.ev = "request"))

InitLookups == InitCall(<<>>) /\ arg = NoArg

\* a caller of the adapter (data_processing.py lines 144-156): the lookup q,
\* idle ticks after the previous call returned
Lookup(q, idle, direct, search) ==
    /\ pc = "call"
    /\ now + idle <= Epoch + Horizon
    /\ \E a \in {[AdapterState EXCEPT !.now = @ + idle]} :
         \E r \in {IF q.by = "id" THEN query_scryfall_by_id(q.id, a, direct)
                   ELSE query_scryfall_card(q.name, q.set_code, q.number, a, direct, search)} :
             /\ Leaves([r.a EXCEPT !.wire = IF Served(q, a) THEN wire ELSE @])
             /\ arg' = q
             /\ res' = [op |-> "lookup", card |-> r.card, served |-> Served(q, a),
                        requests |-> Requests(r.a.wire)]
    /\ UNCHANGED <<card_database, confirmed_matches, pending_confirmations, given_up_cards,
                   scryfall_only_cards, cards, merged_cards, pc, nlines, last>>

\* the answers to choose from for the first request of the lookup q (by id, or
\* by set code and number) and for its search request
First(q, responses) ==
    IF ~Served(q, AdapterState) /\ (q.by = "id" \/ q.number # NoNumber)
    THEN responses ELSE {NotFound}

Second(q, responses) ==
    IF ~Served(q, AdapterState) /\ q.by = "card" THEN responses ELSE {NotFound}

\* a lookup served from the cache takes no time
Arrivals(q) == IF Served(q, AdapterState) THEN {0} ELSE Idles

Asking(queries, responses) ==
    \E q \in queries :
        \E idle \in Arrivals(q), direct \in First(q, responses), search \in Second(q, responses) :
            Lookup(q, idle, direct, search)

\* every kind of answer to a few lookups
Lookups == Asking(Queries \ {ByCard(NameOther, "alpha", "1")}, AdapterResponses)

SpecAdapter == InitLookups /\ [][Lookups]_vars

\* a service that answers or limits, over all the lookups
LimitedLookups == Asking(Queries, {Ok, Limited, LimitedRetry(3)})

SpecBackoff == InitLookups /\ [][LimitedLookups]_vars

-----------------------------------------------------------------------------
(* Properties of the run *)

\* a step that processed an inventory line (map_fields returned)
LineProcessed == last.op \in {"standard", "token"}

\* C1: after any sequence of processed lines, the pending queue never holds
\* two entries with the same 4-field identity key.
C1_PendingKeysDistinct ==
    \A i, j \in 1..Len(pending_confirmations) :
        i # j => Key4(pending_confirmations[i].key) # Key4(pending_confirmations[j].key)

\* C2: in every reachable state, no 4-field identity key is both a key of the
\* confirmed-match cache and the key of an entry of the pending queue.
C2_ConfirmedAndPendingDisjoint ==
    \A i \in 1..Len(pending_confirmations) :
        Key4(pending_confirmations[i].key) \notin DOMAIN confirmed_matches

\* C3: a line whose 4-field key is in the confirmed-match cache returns an
\* entry built from the cached candidate, without a call of the scorer or of
\* the enrichment adapter, and leaves the confirmed cache, the pending queue,
\* the unresolved list and the external-only list as they were.
C3_CacheHitShortCircuits ==
    [][(nlines' = nlines + 1 /\ last'.hit) =>
          /\ last'.ret # NoEntry
          /\ last'.ret.pn = DictGet(card_database, confirmed_matches[last'.key]).pn
          /\ last'.ret.number = DictGet(card_database, confirmed_matches[last'.key]).number
          /\ ~last'.scored
          /\ ~last'.enriched
          /\ UNCHANGED <<confirmed_matches, pending_confirmations, given_up_cards,
                         scryfall_only_cards>>]_vars

\* C5: whenever a top candidate whose catalog id is the synthetic-origin
\* sentinel is auto-confirmed, its score is at least the external threshold
\* 350, also when the synthetic candidate was registered by an earlier line
\* and is scored by the local scorer.
C5_ExternalOnlyNeedsHigherBar ==
    (/\ LineProcessed
     /\ last.scored
     /\ last.chosen # NoKey
     /\ DictGet(card_database, last.chosen).id = DEFAULT_SCRYFALL_ID)
        => last.matches[1][2] >= 350

\* C6: whenever a line is auto-confirmed, by the standard policy or by the
\* token threshold, the confirmed-match cache maps the line's 4-field key to
\* the confirmed candidate key right after that step.
C6_AutoConfirmWritesCache ==
    (LineProcessed /\ last.scored /\ last.chosen # NoKey)
        => /\ last.key \in DOMAIN confirmed_matches
           /\ confirmed_matches[last.key] = last.chosen

\* the candidates of a ranked list whose product name encodes two faces
DoubleFaced(matches) ==
    SelectSeq(matches, LAMBDA m : DictGet(card_database, m[1]).pn.dfc)

\* the case of C10: a token line with a two-faced name was scored, its best
\* candidate passes the token threshold and is single-faced, and the result
\* holds a double-faced candidate
TwoFacedShadowed ==
    /\ last.op = "token"
    /\ last.scored
    /\ last.line.name.dfc
    /\ last.matches # <<>>
    /\ last.matches[1][2] >= 250
    /\ ~DictGet(card_database, last.matches[1][1]).pn.dfc
    /\ DoubleFaced(last.matches) # <<>>

\* C10 as stated: in that case the line resolves to the top double-faced
\* candidate, a resolved entry built from that candidate being returned.
C10_ResolvesToDoubleFaced ==
    TwoFacedShadowed =>
        /\ last.ret # NoEntry
        /\ last.ret.pn = DictGet(card_database, DoubleFaced(last.matches)[1][1]).pn
        /\ last.chosen = DoubleFaced(last.matches)[1][1]

\* C10, amended: in that case the line is deferred: no entry is returned, and
\* one item is appended to the pending queue, with the key of the line and the
\* double-faced candidates of the result as its ranked list.
C10_DefersToPending ==
    TwoFacedShadowed =>
        /\ last.ret = NoEntry
        /\ last.chosen = NoKey
        /\ pending_confirmations # <<>>
        /\ Key4(pending_confirmations[Len(pending_confirmations)].key) = last.key
        /\ pending_confirmations[Len(pending_confirmations)].matches
               = DoubleFaced(last.matches)

\* a two-faced token line deferred with fewer candidates than were ranked
C10_Witness ==
    /\ TwoFacedShadowed
    /\ last.ret = NoEntry
    /\ Len(pending_confirmations) = 1
    /\ Len(last.matches) > Len(pending_confirmations[1].matches)

-----------------------------------------------------------------------------
(* Properties of the functions applied on their own *)

\* the function op has been applied: res holds its result
Applied(op) == res # NoRes /\ res.op = op

\* C4: for a non-empty ranked list, the top candidate is confirmed if and only
\* if (it is external-only and best_score >= 350) or best_score >= 270 or
\* (best_score >= 260 and best_score - second_score >= 30), second_score being
\* 0 without a runner-up; in every other case the result is None.
C4_ConfirmationPolicy ==
    Applied("confirm_and_iterate_match") =>
        LET best == res.matches[1][1]
            best_score == res.matches[1][2]
            second_score == IF Len(res.matches) > 1 THEN res.matches[2][2] ELSE 0
            external == /\ DictHas(card_database, best)
                        /\ DictGet(card_database, best).id = "Scryfall Verified"
            confirm == \/ (external /\ best_score >= 350)
                       \/ best_score >= 270
                       \/ (best_score >= 260 /\ best_score - second_score >= 30)
        IN  IF confirm
            THEN /\ res.ret = best
                 /\ arg.key \in DOMAIN confirmed_matches
                 /\ confirmed_matches[arg.key] = best
                 /\ pending_confirmations = <<>>
            ELSE /\ res.ret = NoKey
                 /\ confirmed_matches = <<>>

\* a list confirmed at exactly the high-confidence threshold
C4_Witness ==
    /\ Applied("confirm_and_iterate_match")
    /\ res.matches[1][2] = 270
    /\ Len(res.matches) > 1
    /\ res.matches[2][2] = 269
    /\ res.ret = res.matches[1][1]
    /\ DictGet(card_database, res.matches[1][1]).id # DEFAULT_SCRYFALL_ID

\* the candidates of the pool that no pruning rule skips for the query q
Surviving(q) ==
    {i \in 1..Len(card_database) :
        ~Pruned(q, card_database[i][1]) /\ ~PrereleaseRow(card_database[i][2])}

\* the candidates of the pool with a present number equal to the present
\* number of the query q
WithExactNumber(q) ==
    {i \in 1..Len(card_database) :
        /\ KNumber(q) # NoNumber
        /\ KNumber(card_database[i][1]) # NoNumber
        /\ KNumber(card_database[i][1]) = KNumber(q)}

\* C7: whenever a surviving candidate has a present collector number equal to
\* the query's present number, every candidate of the result has exactly that
\* number; when no candidate has the exact number, all surviving candidates
\* are returned.
C7_ExactNumberTiering ==
    Applied("find_best_match") =>
        LET returned == {res.matches[j][1] : j \in 1..Len(res.matches)}
        IN  /\ (Surviving(arg.key) \cap WithExactNumber(arg.key) # {})
                   => \A k \in returned : KNumber(k) = KNumber(arg.key)
            /\ (WithExactNumber(arg.key) = {})
                   => /\ returned = {card_database[i][1] : i \in Surviving(arg.key)}
                      /\ Len(res.matches) = Cardinality(Surviving(arg.key))

\* a pool with a surviving exact-number candidate and a surviving candidate
\* with another number, of which only the first is returned
C7_Witness ==
    /\ Applied("find_best_match")
    /\ Surviving(arg.key) \cap WithExactNumber(arg.key) # {}
    /\ Surviving(arg.key) \ WithExactNumber(arg.key) # {}
    /\ Len(res.matches) = 1

\* C8: for a query and a candidate of the result, changing one side's
\* condition so that one tracked finish term goes from present on both sides
\* or on neither to present on one side only lowers the returned score by
\* exactly that term's penalty, all other fields equal.  Here the term is
\* added to or removed from the condition of the query.
C8_FinishTermPenalty ==
    Applied("find_best_match") =>
        \A i \in 1..Len(res.matches), t \in FinishTerms :
            LET c == res.matches[i][1]
                q == arg.key
                flipped == [q EXCEPT ![4] =
                               Cond(KCond(q).base,
                                    IF t \in KCond(q).terms
                                    THEN KCond(q).terms \ {t}
                                    ELSE KCond(q).terms \cup {t})]
                after == find_best_match(flipped, card_database)
            IN  ((t \in KCond(q).terms) = (t \in KCond(c).terms))
                    => \E j \in 1..Len(after) :
                           /\ after[j][1] = c
                           /\ after[j][2] = res.matches[i][2] - SPECIAL_PRINT_PENALTIES(t)

\* C9: a candidate whose name, set, present number and condition are those of
\* the query receives a score above the high-confidence threshold 270, and
\* the confirmation engine confirms it.
C9_IdenticalCandidateConfirmed ==
    /\ Applied("find_best_match") =>
           \A j \in 1..Len(res.matches) :
               (KNumber(arg.key) # NoNumber /\ Key4(res.matches[j][1]) = arg.key)
                   => res.matches[j][2] > 270
    /\ Applied("confirm_and_iterate_match") =>
           \A j \in 1..Len(res.matches) :
               (KNumber(arg.key) # NoNumber /\ Key4(res.matches[j][1]) = arg.key)
                   => res.ret = res.matches[j][1]

-----------------------------------------------------------------------------
(* Properties of the adapter *)

\* a step in which the lookup just made is made again, the earlier one having
\* gone to the service
Repeated == arg' = arg /\ res # NoRes /\ ~res.served /\ res'.served

\* C11 (as stated): two lookups with identical parameters together issue
\* exactly one remote call, and the second returns what the first returned.
C11_OneRemoteCall ==
    [][Repeated => res.requests + res'.requests = 1 /\ res'.card = res.card]_vars

\* C11 (amended): the second of two lookups with identical parameters issues no
\* remote request and returns what the first returned, whatever that was; the
\* first issues one request, or two (the request by set code and number, then
\* the search) when a number is given and the first request is answered by
\* anything but a 200.
C11_SecondServedFromCache ==
    [][Repeated =>
          /\ res'.requests = 0
          /\ res'.card = res.card
          /\ res.requests \in {1, 2}
          /\ (arg.by = "id" \/ arg.number = NoNumber => res.requests = 1)]_vars

\* a lookup by name, set code and number was served from the cache after the
\* last lookup that reached the service sent two requests and found no card
C11_Witness ==
    /\ Applied("lookup")
    /\ res.served /\ res.requests = 0 /\ res.card = NoCard
    /\ arg.by = "card" /\ arg.number # NoNumber
    /\ Requests(wire) = 2

\* the sleep after a 429 response that carried no Retry-After header
Unprompted(e) == e.ev = "backoff" /\ e.kind = "none"

BackoffCap == Seconds(30)

\* the wait w2 follows the wait w1
Escalates(w1, w2) == (w1 < BackoffCap => w2 > w1) /\ (w1 = BackoffCap => w2 = BackoffCap)

\* the two requests of one lookup (wire'[i - 1] and wire'[i + 1]) were both
\* answered by a 429 without a header
LimitedTwice(i) ==
    i + 2 <= Len(wire') /\ Unprompted(wire'[i]) /\ Unprompted(wire'[i + 2])

\* the last request of the previous lookup and the first of this one were both
\* answered by a 429 without a header
LimitedAcross ==
    /\ wire # <<>> /\ Unprompted(wire[Len(wire)])
    /\ Len(wire') >= 3 /\ Unprompted(wire'[3])

-----------------------------------------------------------------------------
(* Properties of adjudication and of the output *)

\* the list given_up holds an entry for the line of the pending item: its
\* name and its condition
ListedUnresolved(item, given_up) ==
    \E j \in 1..Len(given_up) :
        given_up[j].pn.face = KName(item.key) /\ given_up[j].cond = KCond(item.key)

\* C13: when the adjudication collaborator raises while lines are pending, the
\* run goes on, the pending queue ends empty, and every line that was pending
\* is in the unresolved list handed to the output.
C13_FailureMovesPendingToUnresolved ==
    [][last'.op = "confirm_failed" =>
          /\ pc' = "confirmed"
          /\ pending_confirmations' = <<>>
          /\ \A i \in 1..Len(pending_confirmations) :
                ListedUnresolved(pending_confirmations[i], given_up_cards')]_vars

\* the list bucket holds an entry for the line of the pending item: an entry
\* with the line's condition and either the line's name or the product name
\* of one of the item's candidates
Listed(item, bucket) ==
    \E j \in 1..Len(bucket) :
        /\ bucket[j].cond = KCond(item.key)
        /\ \/ bucket[j].pn.face = KName(item.key)
           \/ \E m \in 1..Len(item.matches) :
                  bucket[j].pn = DictGet(card_database, item.matches[m][1]).pn

\* C14: every line deferred to the pending queue is settled by adjudication
\* before the output is written: it is in the resolved, the external-only or
\* the unresolved list handed to write_output_files.
C14_DeferredLinesAreSettled ==
    [][pc = "merged" /\ pc' = "confirmed" =>
          \A i \in 1..Len(pending_confirmations) :
              \/ Listed(pending_confirmations[i], merged_cards')
              \/ Listed(pending_confirmations[i], scryfall_only_cards')
              \/ Listed(pending_confirmations[i], given_up_cards')]_vars

\* C15: lines are processed in input order and the pending queue keeps it: a
\* line that is deferred is put behind the lines deferred before it, under its
\* own key, and until adjudication no entry of the queue is moved or removed.
C15_PendingKeepsInputOrder ==
    [][pc = "lines" =>
          \/ pending_confirmations' = pending_confirmations
          \/ /\ LineProcessed'
             /\ Len(pending_confirmations') = Len(pending_confirmations) + 1
             /\ SubSeq(pending_confirmations', 1, Len(pending_confirmations))
                    = pending_confirmations
             /\ Key4(pending_confirmations'[Len(pending_confirmations')].key)
                    = Key4(last'.key)]_vars

\* two lines with different keys were deferred, the second one just now
C15_Witness ==
    /\ LineProcessed /\ pc = "lines"
    /\ Len(pending_confirmations) = 2
    /\ Key4(pending_confirmations[2].key) = Key4(last.key)
    /\ pending_confirmations[1].key # pending_confirmations[2].key

\* C16: the record of a resolved line, built from a confirmed reference
\* candidate, carries the catalog id of that candidate and not the sentinel
\* "Not Found".
C16_ResolvedRecordCarriesCatalogId ==
    LineProcessed /\ last.ret # NoEntry /\ last.chosen # NoKey =>
        /\ last.ret.id = DictGet(card_database, last.chosen).id
        /\ last.ret.id # DEFAULT_TCGPLAYER_ID

\* the product a record was built from: the fields it took from its candidate
Product(entry) == <<entry.pn, entry.set, entry.number>>

TotalQty(cs) == SumQty(cs, 1..Len(cs))

\* C17: the merge yields at most one record per (catalog id, condition), whose
\* quantity is the sum over the resolved lines with that pair; lines confirmed
\* against candidates with different catalog ids are never combined (each
\* line's product and condition are on a record of the merge); the total
\* quantity is kept.
C17_MergeKeepsCandidatesApart ==
    pc = "merged" =>
        /\ \A m, n \in 1..Len(merged_cards) :
              merged_cards[m].id = merged_cards[n].id
                  /\ merged_cards[m].cond = merged_cards[n].cond => m = n
        /\ \A m \in 1..Len(merged_cards) :
              merged_cards[m].qty =
                  SumQty(cards, {i \in 1..Len(cards) :
                                    /\ cards[i].id = merged_cards[m].id
                                    /\ cards[i].cond = merged_cards[m].cond})
        /\ \A i \in 1..Len(cards) : \E m \in 1..Len(merged_cards) :
              /\ Product(merged_cards[m]) = Product(cards[i])
              /\ merged_cards[m].cond = cards[i].cond
        /\ TotalQty(merged_cards) = TotalQty(cards)

\* C18: a line whose confirmed candidate is external-only (its catalog id is
\* the synthetic-origin sentinel), confirmed just now or found in the cache of
\* confirmed matches, is appended to the external-only list and is not
\* returned as a resolved line.
C18_ExternalOnlyNeverResolved ==
    [][LineProcessed' /\ pc = "lines" /\ last'.chosen # NoKey
          /\ IsScryfallOnly(card_database', last'.chosen) =>
              /\ last'.ret = NoEntry
              /\ cards' = cards
              /\ Len(scryfall_only_cards') = Len(scryfall_only_cards) + 1]_vars

-----------------------------------------------------------------------------
(* Properties of enrichment within the run *)

\* the lookups of the line just processed ended in the except branch: a
\* transport error or a body that does not parse
LookupFailed(events) == events # <<>> /\ events[Len(events)].ev = "error"

\* C19: when the remote lookup of enrichment fails with a transport or parse
\* error, enrichment returns the candidates of local scoring unchanged and
\* nothing is raised; a line without local candidates is appended to the
\* unresolved list; the run goes on with the following lines.
C19_FailedLookupLeavesCandidates ==
    [][pc = "lines" /\ last'.op = "standard" /\ last'.enriched /\ LookupFailed(wire') =>
          /\ pc' = "lines"
          /\ card_database' = card_database
          /\ last'.matches = find_best_match(last'.key, card_database)
          /\ last'.matches = <<>> =>
                /\ last'.ret = NoEntry
                /\ Len(given_up_cards') = Len(given_up_cards) + 1
                /\ given_up_cards'[Len(given_up_cards')].pn = last'.line.name
                /\ given_up_cards'[Len(given_up_cards')].cond = last'.line.cond]_vars

\* the second line of the input was processed after the lookup of a line
\* without local candidates failed and that line was given up
C19_Witness ==
    /\ pc = "lines" /\ nlines = 2
    /\ last.op = "standard" /\ last.enriched /\ LookupFailed(wire)
    /\ last.matches = <<>>
    /\ Len(given_up_cards) = 2
    /\ given_up_cards[2].pn = last.line.name

-----------------------------------------------------------------------------
(* Properties of the rate limiter *)

\* the places of the requests among the events
RequestsAt(events) == {i \in 1..Len(events) : events[i].ev = "request"}

\* C20: every request the adapter sends is preceded by the rate-limit wait,
\* and two successive requests, those of one lookup included, are at least
\* the minimum interval between requests apart.
C20_EveryRequestWaits ==
    [][~res'.served =>
          /\ \A i \in RequestsAt(wire') : i > 1 /\ wire'[i - 1].ev = "limit"
          /\ \A i, j \in RequestsAt(wire') :
                i < j => wire'[j].at - wire'[i].at >= SCRYFALL_RATE_LIMIT
          /\ \A i \in RequestsAt(wire), j \in RequestsAt(wire') :
                wire'[j].at - wire[i].at >= SCRYFALL_RATE_LIMIT]_vars

-----------------------------------------------------------------------------
(* Properties of the scorer, continued *)

\* C21: no candidate whose product name indicates a pre-release print is in
\* the result of the scorer, whatever its name, set, number or condition, its
\* number being that of the query included.
C21_PrereleaseNeverReturned ==
    Applied("find_best_match") =>
        \A i \in 1..Len(res.matches) :
            ~PrereleaseRow(DictGet(card_database, res.matches[i][1]))

-----------------------------------------------------------------------------
(* normalize_key on the text of a set name and of a collector number.  A     *)
(* number is a sequence of characters; a set name is one of a few texts.     *)

\* the longest collector number given to normalize_key
MaxNumberLen == 3

DigitChars == {"1", "7"}
NumberChars == DigitChars \cup {"h", "-"}
RawNumbers == UNION {[1..n -> NumberChars] : n \in 0..MaxNumberLen}
SetTexts == {"The List", "the list", "PLST", "The List Reprints", "Alpha", "Prerelease Cards"}

\* lines 54-55: accents and other characters removed, stripped, lower case
CleanedSetName(set_name) ==
    CASE set_name = "The List" -> "the list"
      [] set_name = "the list" -> "the list"
      [] set_name = "PLST" -> "plst"
      [] set_name = "The List Reprints" -> "the list reprints"
      [] set_name = "Alpha" -> "alpha"
      [] set_name = "Prerelease Cards" -> "prerelease cards"

\* lines 57-58
normalized_set_name(set_name) ==
    IF CleanedSetName(set_name) \in {"plst", "the list"}
    THEN "the list reprints"
    ELSE CleanedSetName(set_name)

\* number.split("-")[-1]
AfterLastHyphen(number) ==
    LET hyphens == {i \in 1..Len(number) : number[i] = "-"}
    IN  IF hyphens = {} THEN number
        ELSE SubSeq(number, (CHOOSE i \in hyphens : \A j \in hyphens : j <= i) + 1, Len(number))

\* re.sub(r"[^\d\-]", "", number)
DigitsAndHyphens(number) == SelectSeq(number, LAMBDA c : c \in DigitChars \cup {"-"})

\* lines 63-68: the number of the key, for the set name of lines 57-58
normalized_number(set, number) ==
    LET split == IF set = "the list" THEN AfterLastHyphen(number) ELSE number
    IN  IF split = <<>> \/ DigitsAndHyphens(split) = <<>>
        THEN NoNumber
        ELSE DigitsAndHyphens(split)

\* lines 57-71: the set and the number of the key, or None
normalize_set_and_number(set_name, number) ==
    IF normalized_set_name(set_name) = "prerelease cards"
    THEN NoKey
    ELSE <<normalized_set_name(set_name),
           normalized_number(normalized_set_name(set_name), number)>>

InitNormalize ==
    /\ InitCall(<<>>)
    /\ arg \in {[op |-> "normalize_key", set_name |-> t, number |-> n] :
                    t \in SetTexts, n \in RawNumbers}

Normalize ==
    /\ arg.op = "normalize_key"
    /\ res = NoRes
    /\ res' = [op |-> "normalize_key", key |-> normalize_set_and_number(arg.set_name, arg.number)]
    /\ UNCHANGED <<arg, runVars>>

SpecNormalize == InitNormalize /\ [][Normalize]_vars

\* C22: when the set normalizes to the reprint-list set ('The List', 'PLST'),
\* the number of the key is the part of the collector number after its last
\* hyphen (of which the digits are kept), without prefix or leading hyphen.
C22_ListNumberIsSuffix ==
    (Applied("normalize_key") /\ arg.set_name \in {"The List", "the list", "PLST"}) =>
        /\ res.key # NoKey
        /\ res.key[2] = IF DigitsAndHyphens(AfterLastHyphen(arg.number)) = <<>>
                        THEN NoNumber
                        ELSE DigitsAndHyphens(AfterLastHyphen(arg.number))

-----------------------------------------------------------------------------
(* Properties of the rate limiter, continued *)

\* the events of a lookup whose last request was answered 429 and whose
\* request before that was answered otherwise: one consecutive 429
OnceLimited(events) ==
    /\ Len(events) >= 3
    /\ events[Len(events)].ev = "backoff"
    /\ events[Len(events) - 1].ev = "request"
    /\ events[Len(events) - 2].ev = "request"

\* C23: after k >= 1 consecutive 429 responses the interval enforced before
\* the next request is the baseline times min(2^k, 8), and the enforced
\* interval is never below the baseline.  The first part is stated for k = 1:
\* the lookup that follows a request answered 429, itself preceded by a
\* request answered otherwise, enforces twice the baseline.
C23_IntervalFollowsConsecutive429s ==
    [][(Applied("lookup")' /\ ~res'.served) =>
          /\ wire'[1].ev = "limit"
          /\ wire'[1].n >= SCRYFALL_RATE_LIMIT
          /\ OnceLimited(wire) => wire'[1].n = SCRYFALL_RATE_LIMIT * 2]_vars

-----------------------------------------------------------------------------
(* Properties of the run, continued *)

\* C24: for a token line with a two-faced name whose top candidate passes the
\* token threshold and is not the top double-faced candidate of the result,
\* the line is not confirmed: one entry is appended to the pending queue, no
\* entry is returned, the confirmed cache and the unresolved list are unchanged.
C24_ShadowedTokenLineIsDeferred ==
    [][(nlines' = nlines + 1 /\ TwoFacedShadowed') =>
          /\ last'.ret = NoEntry
          /\ cards' = cards
          /\ Len(pending_confirmations') = Len(pending_confirmations) + 1
          /\ SubSeq(pending_confirmations', 1, Len(pending_confirmations))
                 = pending_confirmations
          /\ confirmed_matches' = confirmed_matches
          /\ given_up_cards' = given_up_cards]_vars

\* a two-faced token line was deferred as the second line of the input, the
\* first line having been confirmed
C24_Witness ==
    /\ TwoFacedShadowed
    /\ nlines = 2
    /\ last.ret = NoEntry
    /\ DOMAIN confirmed_matches # {}
    /\ Len(cards) = 1
    /\ Len(pending_confirmations) = 1

\* the adapter was invoked for the line just processed: it sent a request or
\* wrote to its cache, or enrichment was entered
Invoked ==
    \/ last_scryfall_request' # last_scryfall_request
    \/ scryfall_cache' # scryfall_cache
    \/ last'.enriched

\* C25: the adapter is invoked for a line only when local scoring returned no
\* candidate or its best score is below 260; it is never invoked when the line
\* hits the confirmed cache or when the local best score is 260 or more.
C25_EnrichmentOnlyWhenWeak ==
    [][(nlines' = nlines + 1 /\ Invoked) =>
          /\ last'.op = "standard"
          /\ ~last'.hit
          /\ last'.key \notin DOMAIN confirmed_matches
          /\ \/ find_best_match(last'.key, card_database) = <<>>
             \/ find_best_match(last'.key, card_database)[1][2] < medium_confidence_score]_vars

\* the adapter was asked for a line that has local candidates, all of them
\* below the threshold
C25_Witness ==
    /\ last.op = "standard" /\ last.enriched
    /\ Asked(wire, "id")
    /\ last.matches # <<>>
    /\ last.matches[1][2] > 0
    /\ last.matches[1][2] < medium_confidence_score

\* the number of outcomes the step recorded: entries returned, and entries
\* appended to the external-only list, the pending queue and the unresolved list
Recorded ==
    (Len(cards') - Len(cards))
    + (Len(scryfall_only_cards') - Len(scryfall_only_cards))
    + (Len(pending_confirmations') - Len(pending_confirmations))
    + (Len(given_up_cards') - Len(given_up_cards))

\* C26: each processed line with a name and a set that is not a pre-release
\* print has exactly one outcome: an entry is returned, or one entry is
\* appended to one of the external-only list, the pending queue and the
\* unresolved list; no line is dropped from all four or recorded in two.
C26_OneOutcomePerLine ==
    [][(nlines' = nlines + 1 /\ last'.op \in {"standard", "token"}) =>
          /\ Len(cards') >= Len(cards)
          /\ Len(scryfall_only_cards') >= Len(scryfall_only_cards)
          /\ Len(pending_confirmations') >= Len(pending_confirmations)
          /\ Len(given_up_cards') >= Len(given_up_cards)
          /\ Recorded = 1]_vars

\* C27: the lookup of a cache hit never fails: the cached candidate is in the
\* pool the line consults, also when a standard line and a token line share
\* a 4-field key; the run goes on.
C27_CacheHitNeverFails ==
    [][(nlines' = nlines + 1 /\ last'.hit) =>
          /\ pc' = "lines"
          /\ DictHas(IF last'.op = "token"
                     THEN TokenRefData(card_database, TokenSetName(last'.line.set))
                     ELSE card_database,
                     confirmed_matches[last'.key])]_vars

\* C28: registering a synthetic candidate never replaces or removes a record
\* of the loaded catalog, and the synthetic candidate is not in the catalog
\* once the line that created it is resolved: after any sequence of processed
\* lines the catalog is the loaded catalog.
C28_CatalogStaysAsLoaded ==
    /\ \A i \in 1..Len(load_reference_data(CatalogRows)) :
          /\ DictHas(card_database, load_reference_data(CatalogRows)[i][1])
          /\ DictGet(card_database, load_reference_data(CatalogRows)[i][1])
                 = load_reference_data(CatalogRows)[i][2]
    /\ \A i \in 1..Len(card_database) : card_database[i][2].id # DEFAULT_SCRYFALL_ID

\* C30: once a key is in the confirmed cache, its candidate never changes and
\* is never removed for the rest of the run: line processing and adjudication
\* only add mappings for keys that are not yet in the cache.
C30_ConfirmedMappingIsFinal ==
    [][\A k \in DOMAIN confirmed_matches :
          /\ k \in DOMAIN confirmed_matches'
          /\ confirmed_matches'[k] = confirmed_matches[k]]_vars

-----------------------------------------------------------------------------
(* Properties of the adapter, continued *)

\* the last request of the events was answered 429
EndedLimited(events) == events # <<>> /\ events[Len(events)].ev = "backoff"

\* C29: a lookup whose request ended in a 429 response or in an error of the
\* transport is not cached as 'not found': the same lookup made again sends a
\* request again.
C29_FailureIsNotCached ==
    [][(/\ Applied("lookup") /\ ~res.served
        /\ EndedLimited(wire) \/ LookupFailed(wire)
        /\ arg' = arg) =>
          ~res'.served /\ res'.requests >= 1]_vars

====
